---- MODULE Spec2Model ----
(***************************************************************************)
(* A model of the "Copy embed code" plugin (src/src/main.ts).              *)
(*                                                                         *)
(* Strings are sequences of UTF-16 code units (naturals), so that prefix   *)
(* tests, URL decoding, query stripping, path splitting and the three      *)
(* regular expressions of the source are computed unit by unit, as the     *)
(* code computes them.  The plugin is the state machine of its handlers:   *)
(* the two contextmenu listeners, the editor-menu hook, the zero-delay     *)
(* timer, the menu item's click handler and the clipboard promise.         *)
(***************************************************************************)
EXTENDS Integers, Sequences, FiniteSets

(***************************************************************************)
(* Bounds of the model.                                                    *)
(***************************************************************************)
\* right-clicks in one behaviour of Spec
MaxClicks == 2
\* menu-item clicks (calls of copyEmbedCode) in one behaviour of Spec
MaxCopies == 2
\* pieces concatenated into the body of a source string in SpecCopy
MaxParts == 2

(***************************************************************************)
(* Code units and string literals of the source.                           *)
(***************************************************************************)
Percent == 37
Dot == 46
Slash == 47
Question == 63
Backslash == 92

HttpPrefix == <<104, 116, 116, 112, 58, 47, 47>>
HttpsPrefix == <<104, 116, 116, 112, 115, 58, 47, 47>>
AppScheme == <<97, 112, 112, 58, 47, 47>>
ExternalOpen == <<33, 91, 93, 40>>
ExternalClose == <<41>>
WikiOpen == <<33, 91, 91>>
WikiClose == <<93, 93>>
CopiedPrefix == <<67, 111, 112, 105, 101, 100, 58, 32>>
FailureNotice ==
    <<67, 111, 117, 108, 100, 32, 110, 111, 116, 32, 100, 101, 116, 101, 114,
      109, 105, 110, 101, 32, 105, 109, 97, 103, 101, 32, 112, 97, 116, 104>>

\* JavaScript's null where a string is expected, and a thrown URIError where a
\* value is expected: no string holds a negative code unit.
Null == <<-2>>
URIError == <<-1>>

(***************************************************************************)
(* String primitives of the JavaScript runtime.                            *)
(***************************************************************************)
StartsWith(s, p) ==
    /\ Len(p) <= Len(s)
    /\ SubSeq(s, 1, Len(p)) = p

EndsWith(s, p) ==
    /\ Len(p) <= Len(s)
    /\ SubSeq(s, Len(s) - Len(p) + 1, Len(s)) = p

\* s.indexOf(c), 1-based; 0 when c does not occur
IndexOf(s, c) ==
    IF \E i \in 1..Len(s) : s[i] = c
    THEN CHOOSE i \in 1..Len(s) : s[i] = c /\ \A j \in 1..(i - 1) : s[j] # c
    ELSE 0

\* the last element of s.split('/')
LastSegment(s) ==
    IF \E i \in 1..Len(s) : s[i] = Slash
    THEN SubSeq(s, 1 + CHOOSE i \in 1..Len(s) :
                        s[i] = Slash /\ \A j \in (i + 1)..Len(s) : s[j] # Slash,
                Len(s))
    ELSE s

\* \w of a regular expression without the u and i flags
IsWordChar(c) ==
    \/ c \in 48..57
    \/ c \in 65..90
    \/ c \in 97..122
    \/ c = 95

\* what . of a regular expression does not match
IsLineTerminator(c) == c \in {10, 13, 8232, 8233}

\* the value of a hexadecimal digit, -1 for any other code unit
HexVal(c) ==
    IF c \in 48..57 THEN c - 48
    ELSE IF c \in 65..70 THEN c - 55
    ELSE IF c \in 97..102 THEN c - 87
    ELSE -1

\* the octet of the escape %XX at position p of s, -1 when there is none
EscapeAt(s, p) ==
    IF p + 2 > Len(s) THEN -1
    ELSE IF s[p] # Percent THEN -1
    ELSE IF HexVal(s[p + 1]) < 0 \/ HexVal(s[p + 2]) < 0 THEN -1
    ELSE 16 * HexVal(s[p + 1]) + HexVal(s[p + 2])

\* the number of leading 1 bits of an octet, 5 standing for "more than 4"
LeadingOnes(b) ==
    IF b < 128 THEN 0
    ELSE IF b < 192 THEN 1
    ELSE IF b < 224 THEN 2
    ELSE IF b < 240 THEN 3
    ELSE IF b < 248 THEN 4
    ELSE 5

\* the code point of a UTF-8 sequence of n octets starting with b, whose
\* continuation octets are conts; -1 when the octets are not valid UTF-8
CodePoint(b, n, conts) ==
    IF \E j \in 1..(n - 1) : conts[j] < 128 \/ conts[j] > 191 THEN -1
    ELSE LET v == IF n = 2 THEN (b - 192) * 64 + (conts[1] - 128)
                  ELSE IF n = 3
                  THEN (b - 224) * 4096 + (conts[1] - 128) * 64 + (conts[2] - 128)
                  ELSE (b - 240) * 262144 + (conts[1] - 128) * 4096
                       + (conts[2] - 128) * 64 + (conts[3] - 128)
         IN IF n = 2 /\ v >= 128 THEN v
            ELSE IF n = 3 /\ v >= 2048 /\ v \notin 55296..57343 THEN v
            ELSE IF n = 4 /\ v >= 65536 /\ v <= 1114111 THEN v
            ELSE -1

\* the UTF-16 code units of a code point
Utf16(v) ==
    IF v < 65536 THEN <<v>>
    ELSE <<55296 + ((v - 65536) \div 1024), 56320 + ((v - 65536) % 1024)>>

\* The decoding of an escape at position k of s whose first octet is b, with
\* n leading 1 bits, and whose octets make the code point v: the code units
\* appended and the position decoding continues from, or URIError.
DecodeEscape(s, k, b, n, v) ==
    IF b < 0 THEN [units |-> URIError, next |-> k]
    ELSE IF n = 0 THEN [units |-> <<b>>, next |-> k + 3]
    ELSE IF n = 1 \/ n > 4 THEN [units |-> URIError, next |-> k]
    ELSE IF k + 3 * n - 1 > Len(s) THEN [units |-> URIError, next |-> k]
    ELSE IF v < 0 THEN [units |-> URIError, next |-> k]
    ELSE [units |-> Utf16(v), next |-> k + 3 * n]

ContinuationOctets(s, k, n) == [j \in 1..(n - 1) |-> EscapeAt(s, k + 3 * j)]

DecodeOctets(s, k, b, n) ==
    DecodeEscape(s, k, b, n, CodePoint(b, n, ContinuationOctets(s, k, n)))

\* one step of the decoding loop at position k of s
DecodeStep(s, k) ==
    IF s[k] # Percent THEN [units |-> <<s[k]>>, next |-> k + 1]
    ELSE DecodeOctets(s, k, EscapeAt(s, k), LeadingOnes(EscapeAt(s, k)))

\* the decoding loop from position k of s, R being the result so far
RECURSIVE DecodeFrom(_, _, _)
DecodeNext(s, R, step) ==
    IF step.units = URIError THEN URIError
    ELSE DecodeFrom(s, step.next, R \o step.units)

DecodeFrom(s, k, R) == IF k > Len(s) THEN R ELSE DecodeNext(s, R, DecodeStep(s, k))

\* decodeURIComponent(s): the decoded string, or URIError when it throws
DecodeURIComponent(s) == DecodeFrom(s, 1, <<>>)

(***************************************************************************)
(* The three regular expressions of the source.                            *)
(***************************************************************************)
Least(S) == CHOOSE a \in S : \A b \in S : a <= b
Greatest(S) == CHOOSE a \in S : \A b \in S : b <= a

\* /\.\w+$/.test(seg)
HasExtension(seg) ==
    \E i \in 1..(Len(seg) - 1) :
        /\ seg[i] = Dot
        /\ \A j \in (i + 1)..Len(seg) : IsWordChar(seg[j])

\* [^/\\?]
IsNameChar(c) == c \notin {Slash, Backslash, Question}

\* the end of the longest run of \w that starts at position p of s (p - 1
\* when s[p] is no word character)
WordRunEnd(s, p) ==
    Least({k \in (p - 1)..Len(s) : k = Len(s) \/ ~IsWordChar(s[k + 1])})

\* whether \.\w+(?:\?|$) matches s at position j and the \w+ ends at k
ExtensionEndsAt(s, j, k) ==
    /\ s[j] = Dot
    /\ k > j
    /\ (k = Len(s) \/ s[k + 1] = Question)

\* whether ([^/\\?]+\.\w+)(?:\?|$) matches s from position i with its dot at j
FallbackMatches(s, i, j) ==
    /\ i < j
    /\ j < Len(s)
    /\ \A p \in i..(j - 1) : IsNameChar(s[p])
    /\ ExtensionEndsAt(s, j, WordRunEnd(s, j + 1))

\* group 1 of the match from position i: the name part is greedy, so the dot
\* is the last one that lets the rest match
FallbackGroup(s, i) ==
    SubSeq(s, i, WordRunEnd(s, Greatest({j \in 1..Len(s) : FallbackMatches(s, i, j)}) + 1))

FallbackLeftmost(s, starts) ==
    IF starts = {} THEN Null ELSE FallbackGroup(s, Least(starts))

\* src.match(/([^/\\?]+\.\w+)(?:\?|$)/): group 1 of the leftmost match, Null
\* when nothing matches
FallbackMatch(s) ==
    FallbackLeftmost(s, {i \in 1..Len(s) : \E j \in 1..Len(s) : FallbackMatches(s, i, j)})

\* (.+?)(?:\?|$) from position p of s, which ends before position q: . matches
\* no line terminator
LazyGroup(s, p, q) ==
    IF \E m \in p..(q - 1) : IsLineTerminator(s[m]) THEN Null
    ELSE SubSeq(s, p, q - 1)

\* [^/]+\/(.+?)(?:\?|$) from position p of s, a being the first slash at or
\* after p (0 when there is none): the authority is not empty, the group
\* holds at least one unit and ends at the first '?' after that unit
AuthorityAndPath(s, p, a) ==
    IF a = 0 \/ a = p \/ a = Len(s) THEN Null
    ELSE LazyGroup(s, a + 1,
                   Least({q \in (a + 2)..(Len(s) + 1) :
                             q = Len(s) + 1 \/ s[q] = Question}))

FirstSlashFrom(s, p) ==
    IF \E a \in p..Len(s) : s[a] = Slash
    THEN Least({a \in p..Len(s) : s[a] = Slash})
    ELSE 0

\* group 1 of /app:\/\/[^/]+\/(.+?)(?:\?|$)/ matched from position i of s,
\* Null when the expression does not match there
AppUrlMatchAt(s, i) ==
    IF i + 5 > Len(s) THEN Null
    ELSE IF SubSeq(s, i, i + 5) # AppScheme THEN Null
    ELSE AuthorityAndPath(s, i + 6, FirstSlashFrom(s, i + 6))

AppUrlLeftmost(s, starts) ==
    IF starts = {} THEN Null ELSE AppUrlMatchAt(s, Least(starts))

\* decodedPath.match(/app:\/\/[^/]+\/(.+?)(?:\?|$)/): group 1 of the leftmost
\* match, Null when nothing matches
AppUrlMatch(s) ==
    AppUrlLeftmost(s, {i \in 1..Len(s) : AppUrlMatchAt(s, i) # Null})

(***************************************************************************)
(* The embed code generator.                                               *)
(***************************************************************************)
\* decoded.substring(0, queryIndex) unless queryIndex is -1 (here 0)
Substring(s, queryIndex) ==
    IF queryIndex # 0 THEN SubSeq(s, 1, queryIndex - 1) ELSE s

StripQuery(s) == Substring(s, IndexOf(s, Question))

\* if (lastSegment && /\.\w+$/.test(lastSegment)) return lastSegment
AcceptSegment(lastSegment) ==
    IF lastSegment # <<>> /\ HasExtension(lastSegment) THEN lastSegment ELSE Null

\* the try block of extractFilenameFromSrc for a decoded src, its catch
\* block when decoding threw
ExtractFrom(src, decoded) ==
    IF decoded # URIError THEN AcceptSegment(LastSegment(StripQuery(decoded)))
    ELSE FallbackMatch(src)

\* extractFilenameFromSrc(src): a string or Null
ExtractFilenameFromSrc(src) == ExtractFrom(src, DecodeURIComponent(src))

\* A vault file (TFile) is [path, name]; these stand for null and for a
\* URIError that left resolveImageFile.
NullFile == [path |-> Null, name |-> Null]
ThrownFile == [path |-> URIError, name |-> URIError]

\* try { decodedPath = decodeURIComponent(src) } catch { decodedPath = src }
CaughtOr(src, decoded) == IF decoded = URIError THEN src ELSE decoded

\* resolveImageFile without its try and catch
DecodedSrcUncaught(src) == DecodeURIComponent(src)

DecodedSrc(src) == CaughtOr(src, DecodeURIComponent(src))

\* if (appUrlMatch && appUrlMatch[1]) decodedPath = appUrlMatch[1]
AppPath(decoded, appUrlMatch) ==
    IF appUrlMatch # Null /\ appUrlMatch # <<>> THEN appUrlMatch ELSE decoded

PathOf(decoded) ==
    IF decoded = URIError THEN URIError
    ELSE StripQuery(AppPath(decoded, AppUrlMatch(decoded)))

\* decodedPath of resolveImageFile when the vault is searched
DecodedPath(src) == PathOf(DecodedSrc(src))

\* the test of the first loop of resolveImageFile
PathMatches(file, decodedPath) ==
    EndsWith(decodedPath, file.path) \/ file.path = decodedPath

\* the files the first loop accepts, by their place in allFiles
ByPath(allFiles, decodedPath) ==
    {i \in 1..Len(allFiles) : PathMatches(allFiles[i], decodedPath)}

\* the files the second loop accepts; it runs only if (filename)
ByName(allFiles, filename) ==
    IF filename = Null \/ filename = <<>> THEN {}
    ELSE {i \in 1..Len(allFiles) : allFiles[i].name = filename}

\* each loop returns the first file it accepts, in enumeration order
FirstOf(allFiles, byPath, byName) ==
    IF byPath # {} THEN allFiles[Least(byPath)]
    ELSE IF byName # {} THEN allFiles[Least(byName)]
    ELSE NullFile

SearchVault(allFiles, decodedPath, filename) ==
    IF decodedPath = URIError THEN ThrownFile
    ELSE FirstOf(allFiles, ByPath(allFiles, decodedPath), ByName(allFiles, filename))

\* resolveImageFile(src) over the vault's files: a file, NullFile or ThrownFile
ResolveImageFile(src, allFiles) ==
    SearchVault(allFiles, DecodedPath(src), ExtractFilenameFromSrc(src))

\* generateEmbedCode embedding the resolved file's path instead of its name
LocalEmbedCodeWithPath(imageFile, fallbackName) ==
    IF imageFile = ThrownFile THEN URIError
    ELSE IF imageFile # NullFile THEN WikiOpen \o imageFile.path \o WikiClose
    ELSE IF fallbackName # Null /\ fallbackName # <<>>
    THEN WikiOpen \o fallbackName \o WikiClose
    ELSE Null

\* the local branch of generateEmbedCode
LocalEmbedCode(imageFile, fallbackName) ==
    IF imageFile = ThrownFile THEN URIError
    ELSE IF imageFile # NullFile THEN WikiOpen \o imageFile.name \o WikiClose
    ELSE IF fallbackName # Null /\ fallbackName # <<>>
    THEN WikiOpen \o fallbackName \o WikiClose
    ELSE Null

\* generateEmbedCode stripping the query string of an external source
GenerateEmbedCodeStripped(src, isExternal, allFiles) ==
    IF isExternal THEN ExternalOpen \o StripQuery(src) \o ExternalClose
    ELSE LocalEmbedCode(ResolveImageFile(src, allFiles), ExtractFilenameFromSrc(src))

\* generateEmbedCode(src, isExternal): the code, Null, or URIError
GenerateEmbedCode(src, isExternal, allFiles) ==
    IF isExternal THEN ExternalOpen \o src \o ExternalClose
    ELSE LocalEmbedCode(ResolveImageFile(src, allFiles), ExtractFilenameFromSrc(src))

\* src.startsWith('http://') || src.startsWith('https://')
IsExternalSrc(src) == StartsWith(src, HttpPrefix) \/ StartsWith(src, HttpsPrefix)

(***************************************************************************)
(* The document, the vault and the inputs.                                 *)
(***************************************************************************)
\* The rendered document: a block, an image in it, an element inside that
\* image, an image nested in that element, and an image without a source.
Elements == {"div", "img1", "inner", "img2", "img0"}
NoElement == "none"
Images == {"img1", "img2", "img0"}
Parent ==
    [e \in Elements |->
        CASE e = "div" -> NoElement
          [] e = "img1" -> "div"
          [] e = "inner" -> "img1"
          [] e = "img2" -> "inner"
          [] e = "img0" -> "div"]
TagName == [e \in Elements |-> IF e \in Images THEN "IMG" ELSE "DIV"]

\* What the host does with a right-click: build the editor's menu (firing
\* editor-menu) and show it, show a menu of its own without that hook, or
\* show no menu popup.
HostModes == {"editor", "preview", "nomenu"}

\* The vault's files: one at the root, one of the same name in a folder, one
\* with a dot-leading name.
FileRoot == [path |-> <<110, 46, 101>>, name |-> <<110, 46, 101>>]
FileInDir == [path |-> <<100, 47, 110, 46, 101>>, name |-> <<110, 46, 101>>]
FileDot == [path |-> <<100, 47, 46, 101>>, name |-> <<46, 101>>]
VaultFiles == {FileRoot, FileInDir, FileDot}

\* every enumeration order of every set of vault files
Vaults ==
    {v \in UNION {[1..n -> VaultFiles] : n \in 0..Cardinality(VaultFiles)} :
        \A i, j \in 1..Len(v) : i # j => v[i] # v[j]}

\* The pieces a source string is made of: a folder, a file name, a
\* dot-leading name, a query, a malformed escape, an escaped slash, an
\* escaped question mark, a folder whose name is a malformed escape.
Pieces ==
    { <<100, 47>>, <<110, 46, 101>>, <<46, 101>>, <<63, 113>>, <<37>>,
      <<37, 50, 70>>, <<37, 51, 70>>, <<37, 47>> }
\* nothing, the two external schemes, and the host's app:// scheme with an
\* authority
SourcePrefixes ==
    { <<>>, HttpPrefix, HttpsPrefix, AppScheme \o <<104, 47>> }

RECURSIVE Bodies(_)
Bodies(n) ==
    IF n = 0 THEN {<<>>}
    ELSE Bodies(n - 1) \cup {b \o p : b \in Bodies(n - 1), p \in Pieces}

Sources == {pre \o b : pre \in SourcePrefixes, b \in Bodies(MaxParts)}

\* the documents of Spec: img1 is local (resolvable through the vault, or
\* with nothing to extract), img2 is external
LocalResolvable == AppScheme \o <<104, 47, 100, 47, 110, 46, 101, 63, 49>>
LocalHopeless == <<100, 97, 116, 97, 58, 37>>
ExternalSrc == HttpsPrefix \o <<104, 47, 110, 46, 101, 63, 37>>

(***************************************************************************)
(* State.                                                                  *)
(***************************************************************************)
VARIABLES
    lifecycle,          \* "constructed", "loaded" or "unloaded"
    imgAttr,            \* the src attribute of each image of the document
    vault,              \* app.vault.getFiles(), in enumeration order
    lastClickedImage,   \* the plugin's slot: NoImage or [src, isExternal]
    timers,             \* pending setTimeout(() => injectIntoExistingMenu(), 0)
    menus,              \* the .menu elements of the document, in document order
    writes,             \* pending navigator.clipboard.writeText promises
    clipboard,          \* the clipboard: its text and the copy that wrote it
    notices,            \* the notices shown, each with the copy that showed it
    budget,             \* right-clicks and item clicks of this behaviour
    nClicks,            \* history: right-clicks so far
    lastTarget,         \* history: the target of the latest right-click handled
    copyLog,            \* history: the calls of copyEmbedCode
    writeLog,           \* history: the settled clipboard writes
    added               \* history: items added per path, timers scheduled and
                        \* right-clicks on images that the plugin handled

vars ==
    <<lifecycle, imgAttr, vault, lastClickedImage, timers, menus, writes,
      clipboard, notices, budget, nClicks, lastTarget, copyLog, writeLog, added>>

NoImage == [src |-> Null, isExternal |-> FALSE]
OldClipboard == <<111, 108, 100>>

InitPlugin ==
    /\ lifecycle = "constructed"
    /\ lastClickedImage = NoImage
    /\ timers = 0
    /\ menus = <<>>
    /\ writes = <<>>
    /\ clipboard = [by |-> 0, text |-> OldClipboard]
    /\ notices = <<>>
    /\ nClicks = 0
    /\ lastTarget = NoElement
    /\ copyLog = <<>>
    /\ writeLog = <<>>
    /\ added = [api |-> 0, dom |-> 0, scheduled |-> 0, imageClicks |-> 0]

Init ==
    /\ InitPlugin
    /\ imgAttr \in {[img1 |-> s, img2 |-> ExternalSrc, img0 |-> <<>>] :
                       s \in {LocalResolvable, LocalHopeless}}
    /\ vault = <<FileRoot, FileInDir>>
    /\ budget = [clicks |-> MaxClicks, copies |-> MaxCopies]

InitCopy ==
    /\ InitPlugin
    /\ imgAttr \in {[img1 |-> s, img2 |-> ExternalSrc, img0 |-> <<>>] : s \in Sources}
    /\ vault \in Vaults
    /\ budget = [clicks |-> 1, copies |-> 1]

(***************************************************************************)
(* The handlers.                                                           *)
(***************************************************************************)
\* onload: the listeners and the hook are registered
Onload ==
    /\ lifecycle = "constructed"
    /\ lifecycle' = "loaded"
    /\ UNCHANGED <<imgAttr, vault, lastClickedImage, timers, menus, writes,
                   clipboard, notices, budget, nClicks, lastTarget, copyLog,
                   writeLog, added>>

\* the loop of captureImageInfo without its break: the outermost IMG
RECURSIVE OutermostImage(_)
OutermostImage(target) ==
    IF target = NoElement THEN NoElement
    ELSE IF OutermostImage(Parent[target]) # NoElement
    THEN OutermostImage(Parent[target])
    ELSE IF TagName[target] = "IMG" THEN target
    ELSE NoElement

\* the loop of captureImageInfo: the nearest IMG at or above target
RECURSIVE NearestImage(_)
NearestImage(target) ==
    IF target = NoElement THEN NoElement
    ELSE IF TagName[target] = "IMG" THEN target
    ELSE NearestImage(Parent[target])

\* imgElement.getAttribute('src') || imgElement.src: the src property of an
\* image whose attribute is missing or empty is the empty string
SrcOf(img, attrs) == IF attrs[img] # <<>> THEN attrs[img] ELSE <<>>

\* captureImageInfo leaving the slot as it is when no image encloses the target
CaptureImageInfoStale(target, attrs) ==
    IF NearestImage(target) = NoElement THEN lastClickedImage
    ELSE IF SrcOf(NearestImage(target), attrs) = <<>> THEN NoImage
    ELSE [src |-> SrcOf(NearestImage(target), attrs),
          isExternal |-> IsExternalSrc(SrcOf(NearestImage(target), attrs))]

\* captureImageInfo(evt): the new value of lastClickedImage
CaptureImageInfo(target, attrs) ==
    LET imgElement == NearestImage(target)
    IN IF imgElement = NoElement THEN NoImage
       ELSE IF SrcOf(imgElement, attrs) = <<>> THEN NoImage
       ELSE [src |-> SrcOf(imgElement, attrs),
             isExternal |-> IsExternalSrc(SrcOf(imgElement, attrs))]

\* addMenuItemIfImage(menu): the items the hook adds to the menu being built
AddMenuItemIfImage(slot) ==
    IF slot = NoImage THEN <<>>
    ELSE <<[kind |-> "api", src |-> slot.src, isExternal |-> slot.isExternal]>>

\* the second contextmenu listener: whether it schedules the injection
SchedulesInjection(slot) == slot # NoImage

\* A right-click on target.  The capture-phase listener runs first, then the
\* host's own handling (the editor-menu hook and the popup), then the second
\* listener; a plugin that is not loaded has no listener.
RightClick(target, mode) ==
    /\ nClicks < budget.clicks
    /\ LET on == lifecycle = "loaded"
           slot == IF on THEN CaptureImageInfo(target, imgAttr) ELSE lastClickedImage
           items == IF on /\ mode = "editor" THEN AddMenuItemIfImage(slot) ELSE <<>>
           sched == IF on /\ SchedulesInjection(slot) THEN 1 ELSE 0
       IN /\ lastClickedImage' = slot
          /\ menus' = IF mode = "nomenu" THEN menus
                      ELSE Append(menus, [id |-> nClicks + 1, injected |-> FALSE,
                                          hidden |-> FALSE, items |-> items])
          /\ timers' = timers + sched
          /\ added' = [added EXCEPT
                        !.api = @ + Len(items),
                        !.scheduled = @ + sched,
                        !.imageClicks =
                            IF on /\ NearestImage(target) # NoElement THEN @ + 1 ELSE @]
          /\ lastTarget' = IF on THEN target ELSE lastTarget
    /\ nClicks' = nClicks + 1
    /\ UNCHANGED <<lifecycle, imgAttr, vault, writes, clipboard, notices, budget,
                   copyLog, writeLog>>

\* document.querySelector('.menu'): the selector without its :not() guard
QuerySelectorAnyMenu(ms) == IF ms = <<>> THEN 0 ELSE 1

\* document.querySelector('.menu:not([data-copy-embed-injected])'): the index
\* of the first such element, 0 for null
QuerySelector(ms) ==
    LET hits == {i \in 1..Len(ms) : ~ms[i].injected}
    IN IF hits = {} THEN 0 ELSE CHOOSE i \in hits : \A j \in hits : i <= j

\* injectIntoExistingMenu(): the menus afterwards
InjectIntoExistingMenu(slot, ms) ==
    IF slot = NoImage THEN ms
    ELSE IF QuerySelector(ms) = 0 THEN ms
    ELSE [ms EXCEPT
            ![QuerySelector(ms)].injected = TRUE,
            ![QuerySelector(ms)].items =
                Append(@, [kind |-> "dom", src |-> slot.src,
                           isExternal |-> slot.isExternal])]

RECURSIVE CountItems(_)
CountItems(ms) ==
    IF ms = <<>> THEN 0 ELSE Len(Head(ms).items) + CountItems(Tail(ms))

\* a zero-delay timer fires
TimerFire ==
    /\ timers > 0
    /\ timers' = timers - 1
    /\ menus' = InjectIntoExistingMenu(lastClickedImage, menus)
    /\ added' = [added EXCEPT !.dom = @ + CountItems(menus') - CountItems(menus)]
    /\ UNCHANGED <<lifecycle, imgAttr, vault, lastClickedImage, writes, clipboard,
                   notices, budget, nClicks, lastTarget, copyLog, writeLog>>

RemoveAt(s, i) == SubSeq(s, 1, i - 1) \o SubSeq(s, i + 1, Len(s))

\* the host removes a menu popup from the document
CloseMenu(m) ==
    /\ m \in 1..Len(menus)
    /\ menus' = RemoveAt(menus, m)
    /\ UNCHANGED <<lifecycle, imgAttr, vault, lastClickedImage, timers, writes,
                   clipboard, notices, budget, nClicks, lastTarget, copyLog,
                   writeLog, added>>

\* copyEmbedCode without its if (embedCode)
CopyOutcomeUnchecked(embedCode) ==
    IF embedCode = URIError THEN "exception" ELSE "write"

\* what copyEmbedCode(src, isExternal) ends with: a pending write, the
\* failure notice, or a URIError that leaves it
CopyOutcome(embedCode) ==
    IF embedCode = URIError THEN "exception"
    ELSE IF embedCode # Null /\ embedCode # <<>> THEN "write"
    ELSE "failure"

\* copyEmbedCode without its await: the confirmation is shown at once
CopyEffectsUnawaited(copy, src, isExternal, embedCode, outcome) ==
    /\ writes' = IF outcome = "write"
                 THEN Append(writes, [copy |-> copy, code |-> embedCode])
                 ELSE writes
    /\ notices' = IF outcome = "failure"
                  THEN Append(notices, [copy |-> copy, text |-> FailureNotice])
                  ELSE IF outcome = "write"
                  THEN Append(notices, [copy |-> copy, text |-> CopiedPrefix \o embedCode])
                  ELSE notices
    /\ copyLog' = Append(copyLog, [src |-> src, isExternal |-> isExternal,
                                   code |-> embedCode, outcome |-> outcome])

\* copyEmbedCode(src, isExternal) up to its await, for the embedCode that
\* generateEmbedCode returned: writeText is called and the function is
\* suspended, or the failure notice is shown
CopyEffects(copy, src, isExternal, embedCode, outcome) ==
    /\ writes' = IF outcome = "write"
                 THEN Append(writes, [copy |-> copy, code |-> embedCode])
                 ELSE writes
    /\ notices' = IF outcome = "failure"
                  THEN Append(notices, [copy |-> copy, text |-> FailureNotice])
                  ELSE notices
    /\ copyLog' = Append(copyLog, [src |-> src, isExternal |-> isExternal,
                                   code |-> embedCode, outcome |-> outcome])

CopyGenerated(copy, src, isExternal, embedCode) ==
    CopyEffects(copy, src, isExternal, embedCode, CopyOutcome(embedCode))

CopyEmbedCode(copy, src, isExternal) ==
    CopyGenerated(copy, src, isExternal, GenerateEmbedCode(src, isExternal, vault))

\* The user clicks item k of menu m.  An injected item's listener calls
\* copyEmbedCode and hides the popup; an item added through the Menu API runs
\* its callback, and the host closes the menu.
ClickItem(m, k) ==
    /\ Len(copyLog) < budget.copies
    /\ m \in 1..Len(menus)
    /\ ~menus[m].hidden
    /\ k \in 1..Len(menus[m].items)
    /\ CopyEmbedCode(Len(copyLog) + 1, menus[m].items[k].src,
                     menus[m].items[k].isExternal)
    /\ menus' = IF menus[m].items[k].kind = "dom"
                THEN [menus EXCEPT ![m].hidden = TRUE]
                ELSE RemoveAt(menus, m)
    /\ UNCHANGED <<lifecycle, imgAttr, vault, lastClickedImage, timers, clipboard,
                   budget, nClicks, lastTarget, writeLog, added>>

\* copyEmbedCode after its await: the confirmation
ConfirmCopy(w) == Append(notices, [copy |-> w.copy, text |-> CopiedPrefix \o w.code])

\* a clipboard write succeeds: the promise resolves and copyEmbedCode resumes
WriteResolve(i) ==
    /\ i \in 1..Len(writes)
    /\ writes' = RemoveAt(writes, i)
    /\ clipboard' = [by |-> writes[i].copy, text |-> writes[i].code]
    /\ notices' = ConfirmCopy(writes[i])
    /\ writeLog' = Append(writeLog, [copy |-> writes[i].copy,
                                     code |-> writes[i].code, ok |-> TRUE])
    /\ UNCHANGED <<lifecycle, imgAttr, vault, lastClickedImage, timers, menus,
                   budget, nClicks, lastTarget, copyLog, added>>

\* a clipboard write fails: the promise rejects, which nothing catches
WriteReject(i) ==
    /\ i \in 1..Len(writes)
    /\ writes' = RemoveAt(writes, i)
    /\ writeLog' = Append(writeLog, [copy |-> writes[i].copy,
                                     code |-> writes[i].code, ok |-> FALSE])
    /\ UNCHANGED <<lifecycle, imgAttr, vault, lastClickedImage, timers, menus,
                   clipboard, notices, budget, nClicks, lastTarget, copyLog, added>>

\* onunload without its assignment
OnunloadKeepsSlot(slot) == slot

\* onunload(): the value it leaves in the slot
Onunload(slot) == NoImage

\* the plugin is disabled: onunload runs and the host detaches the listeners
Unload ==
    /\ lifecycle = "loaded"
    /\ lifecycle' = "unloaded"
    /\ lastClickedImage' = Onunload(lastClickedImage)
    /\ UNCHANGED <<imgAttr, vault, timers, menus, writes, clipboard, notices,
                   budget, nClicks, lastTarget, copyLog, writeLog, added>>

Next ==
    \/ Onload
    \/ \E target \in Elements, mode \in HostModes : RightClick(target, mode)
    \/ TimerFire
    \/ \E m \in 1..MaxClicks : CloseMenu(m)
    \/ \E m \in 1..MaxClicks, k \in 1..2 : ClickItem(m, k)
    \/ \E i \in 1..MaxCopies : WriteResolve(i)
    \/ \E i \in 1..MaxCopies : WriteReject(i)
    \/ Unload

Spec == Init /\ [][Next]_vars

\* One interaction on one image, for every source and every vault.
NextCopy ==
    \/ Onload
    \/ \E mode \in {"editor", "preview"} : RightClick("img1", mode)
    \/ TimerFire
    \/ \E k \in 1..2 : ClickItem(1, k)
    \/ WriteResolve(1)
    \/ WriteReject(1)

SpecCopy == InitCopy /\ [][NextCopy]_vars

(***************************************************************************)
(* Properties.                                                             *)
(***************************************************************************)
BeginsWithHttp(s) == StartsWith(s, HttpPrefix) \/ StartsWith(s, HttpsPrefix)
External(src) == ExternalOpen \o src \o ExternalClose
Wiki(name) == WikiOpen \o name \o WikiClose

Copies == 1..Len(copyLog)
\* the clipboard writes that copy k issued: those pending, those settled
PendingOf(k) == {i \in 1..Len(writes) : writes[i].copy = k}
SettledOf(k) == {i \in 1..Len(writeLog) : writeLog[i].copy = k}
NoticesOf(k) == {i \in 1..Len(notices) : notices[i].copy = k}
IsConfirmation(n) == StartsWith(n.text, CopiedPrefix)

\* the items of menu m that the timer path injected
DomItems(m) == {j \in 1..Len(m.items) : m.items[j].kind = "dom"}
\* the popups that carry data-copy-embed-injected
Augmented(ms) == {ms[i].id : i \in {j \in 1..Len(ms) : ms[j].injected}}

\* the elements at or above e
RECURSIVE Chain(_)
Chain(e) == IF e = NoElement THEN {} ELSE {e} \cup Chain(Parent[e])
EnclosingImages(e) == {i \in Chain(e) : TagName[i] = "IMG"}

\* what the slot holds for a right-click on target: the nearest enclosing
\* image's source and whether it begins with http:// or https://
SlotFor(target) ==
    IF EnclosingImages(target) = {} THEN NoImage
    ELSE LET img == CHOOSE i \in EnclosingImages(target) :
                        EnclosingImages(target) \subseteq Chain(i)
         IN IF imgAttr[img] = <<>> THEN NoImage
            ELSE [src |-> imgAttr[img], isExternal |-> BeginsWithHttp(imgAttr[img])]

\* C1: every item offered carries an image's source with isExternal telling
\* whether it begins with http:// or https://, and a click on an item whose
\* source begins so issues one clipboard write of exactly ![](<source>), the
\* source unmodified, whatever the vault holds; that text is what the
\* clipboard then holds.
C1_ExternalCopiedVerbatim ==
    /\ \A m \in 1..Len(menus) : \A j \in 1..Len(menus[m].items) :
          /\ menus[m].items[j].src \in {imgAttr[i] : i \in Images}
          /\ menus[m].items[j].isExternal = BeginsWithHttp(menus[m].items[j].src)
    /\ \A k \in Copies :
          BeginsWithHttp(copyLog[k].src) =>
             /\ copyLog[k].code = External(copyLog[k].src)
             /\ copyLog[k].outcome = "write"
             /\ Cardinality(PendingOf(k)) + Cardinality(SettledOf(k)) = 1
             /\ \A i \in PendingOf(k) : writes[i].code = External(copyLog[k].src)
             /\ \A i \in SettledOf(k) : writeLog[i].code = External(copyLog[k].src)
             /\ (clipboard.by = k => clipboard.text = External(copyLog[k].src))

\* an external source with a query string, which a vault file would match,
\* has reached the clipboard
C1_Witness ==
    \E k \in Copies :
        /\ BeginsWithHttp(copyLog[k].src)
        /\ clipboard.by = k
        /\ IndexOf(copyLog[k].src, Question) # 0
        /\ ResolveImageFile(copyLog[k].src, vault) # NullFile

\* the vault files a local source matches: by path in the first pass, by
\* name when no path matches
MatchingFiles(src) ==
    IF \E i \in 1..Len(vault) : EndsWith(DecodedPath(src), vault[i].path)
    THEN {i \in 1..Len(vault) : EndsWith(DecodedPath(src), vault[i].path)}
    ELSE {i \in 1..Len(vault) : vault[i].name = ExtractFilenameFromSrc(src)}

\* C2: for a local source that matches a vault file by path, or else by
\* name, generateEmbedCode returns ![[name]] with the name of a file that
\* matches, and of no matching file whose path differs from its name does it
\* return the path; in every enumeration order of the vault.
C2_LocalResolvesToShortName ==
    \A k \in Copies :
        (~BeginsWithHttp(copyLog[k].src) /\ MatchingFiles(copyLog[k].src) # {}) =>
            /\ \E i \in MatchingFiles(copyLog[k].src) :
                  copyLog[k].code = Wiki(vault[i].name)
            /\ \A i \in MatchingFiles(copyLog[k].src) :
                  vault[i].path # vault[i].name =>
                      copyLog[k].code # Wiki(vault[i].path)

\* two files match by path, and the first in enumeration order, which lies
\* in a folder, gave its name
C2_Witness ==
    \E k \in Copies :
        /\ ~BeginsWithHttp(copyLog[k].src)
        /\ Cardinality(ByPath(vault, DecodedPath(copyLog[k].src))) >= 2
        /\ vault[Least(ByPath(vault, DecodedPath(copyLog[k].src)))] = FileInDir
        /\ copyLog[k].code = Wiki(FileInDir.name)

\* the final path segment of a source after stripping its query string: of
\* the decoded source, or of the source itself when it cannot be decoded
FinalSegment(src) == LastSegment(StripQuery(DecodedSrc(src)))

\* C3: for a local source that matches no vault file and whose final path
\* segment, the query string stripped, ends in a dot and word characters,
\* generateEmbedCode returns ![[<that segment>]].
C3_TrailingNameExtracted ==
    \A k \in Copies :
        ( /\ ~BeginsWithHttp(copyLog[k].src)
          /\ ResolveImageFile(copyLog[k].src, vault) = NullFile
          /\ HasExtension(FinalSegment(copyLog[k].src)) ) =>
            copyLog[k].code = Wiki(FinalSegment(copyLog[k].src))

\* C4: a copy of a local source that neither the vault nor the file name
\* extraction resolves generates no code, issues no clipboard write, leaves
\* the clipboard to others, and shows one notice, the failure notice.
C4_NoCodeNoCopy ==
    \A k \in Copies :
        ( /\ ~BeginsWithHttp(copyLog[k].src)
          /\ ResolveImageFile(copyLog[k].src, vault) = NullFile
          /\ ExtractFilenameFromSrc(copyLog[k].src) = Null ) =>
            /\ copyLog[k].code = Null
            /\ PendingOf(k) = {}
            /\ SettledOf(k) = {}
            /\ clipboard.by # k
            /\ Cardinality(NoticesOf(k)) = 1
            /\ \A i \in NoticesOf(k) : notices[i].text = FailureNotice

\* such a copy has happened, with files in the vault
C4_Witness ==
    \E k \in Copies :
        /\ ~BeginsWithHttp(copyLog[k].src)
        /\ ResolveImageFile(copyLog[k].src, vault) = NullFile
        /\ ExtractFilenameFromSrc(copyLog[k].src) = Null
        /\ vault # <<>>
        /\ notices # <<>>

\* C5 as claimed: once no timer is pending, every right-click on an image
\* has produced exactly one injected item.
C5_ExactlyOnePerRightClick ==
    timers = 0 => added.dom = added.imageClicks

\* C5 as amended: a right-click on an image schedules at most one deferred
\* injection, a deferred injection appends at most one item, and no popup
\* holds more than one injected item, which it holds exactly when it is
\* marked.
C5_AtMostOnePerRightClick ==
    /\ added.scheduled <= added.imageClicks
    /\ added.dom + timers <= added.scheduled
    /\ \A m \in 1..Len(menus) :
          /\ Cardinality(DomItems(menus[m])) <= 1
          /\ menus[m].injected <=> DomItems(menus[m]) # {}

\* two right-clicks were handled, their timers fired, and each of the two
\* popups holds one injected item
C5_Witness ==
    /\ added.scheduled = 2
    /\ timers = 0
    /\ added.dom = 2
    /\ Len(menus) = 2
    /\ \A m \in 1..Len(menus) : Cardinality(DomItems(menus[m])) = 1

\* C6: while the plugin is loaded the slot describes the latest right-click
\* only: the source of the nearest image at or above its target, with
\* isExternal telling whether that source begins with http:// or https://,
\* and nothing when no image encloses the target or its source is empty.
C6_SlotIsLatestRightClick ==
    lifecycle = "loaded" => lastClickedImage = SlotFor(lastTarget)

\* a right-click that captured an image was followed by one that found none
C6_Witness ==
    /\ lifecycle = "loaded"
    /\ added.scheduled > 0
    /\ lastTarget \in {"div", "img0"}
    /\ lastClickedImage = NoImage

\* C7: from a right-click that lands on no image until the next right-click
\* handled, no step adds an item, through the hook or through a timer.
C7_NoItemOffImage ==
    [][ (lastTarget' # NoElement /\ EnclosingImages(lastTarget') = {}) =>
            (added'.api = added.api /\ added'.dom = added.dom) ]_vars

\* a timer scheduled by a right-click on an image fired after a right-click
\* off any image, with both popups open and not augmented
C7_Witness ==
    /\ nClicks = 2
    /\ lastTarget = "div"
    /\ added.scheduled = 1
    /\ timers = 0
    /\ added.dom = 0
    /\ Len(menus) = 2
    /\ Augmented(menus) = {}

\* what generateEmbedCode returns for a local source that cannot be decoded,
\* computed from the raw string
RawEmbedCode(src) ==
    LET rawPath == StripQuery(AppPath(src, AppUrlMatch(src)))
        byPath == {i \in 1..Len(vault) : EndsWith(rawPath, vault[i].path)}
        byName == {i \in 1..Len(vault) : vault[i].name = FallbackMatch(src)}
    IN IF byPath # {} THEN Wiki(vault[Least(byPath)].name)
       ELSE IF byName # {} THEN Wiki(vault[Least(byName)].name)
       ELSE IF FallbackMatch(src) # Null THEN Wiki(FallbackMatch(src))
       ELSE Null

\* C8: a copy of a source on which decodeURIComponent throws ends with a
\* clipboard write or the failure notice, never with the URIError, and for a
\* local source the code is the one the raw string gives.
C8_DecodingResilient ==
    \A k \in Copies :
        DecodeURIComponent(copyLog[k].src) = URIError =>
            /\ copyLog[k].outcome \in {"write", "failure"}
            /\ copyLog[k].code # URIError
            /\ (~BeginsWithHttp(copyLog[k].src) =>
                    copyLog[k].code = RawEmbedCode(copyLog[k].src))

\* a local source that cannot be decoded was resolved through the vault by
\* its raw path
C8_Witness ==
    \E k \in Copies :
        /\ DecodeURIComponent(copyLog[k].src) = URIError
        /\ ~BeginsWithHttp(copyLog[k].src)
        /\ copyLog[k].outcome = "write"
        /\ ByPath(vault, StripQuery(copyLog[k].src)) # {}

\* C9: a confirmation is shown only for a clipboard write that has succeeded,
\* of the code it confirms; a copy whose write is pending or has failed has
\* shown no notice; and a copy issues one write when it has a code, none
\* otherwise, and never another.
C9_ConfirmationAfterWrite ==
    /\ \A i \in 1..Len(notices) :
          IsConfirmation(notices[i]) =>
             \E j \in SettledOf(notices[i].copy) :
                /\ writeLog[j].ok
                /\ notices[i].text = CopiedPrefix \o writeLog[j].code
    /\ \A j \in 1..Len(writeLog) :
          ~writeLog[j].ok => NoticesOf(writeLog[j].copy) = {}
    /\ \A i \in 1..Len(writes) : NoticesOf(writes[i].copy) = {}
    /\ \A k \in Copies :
          Cardinality(PendingOf(k)) + Cardinality(SettledOf(k))
              = IF copyLog[k].outcome = "write" THEN 1 ELSE 0

\* one write has failed and another has succeeded and been confirmed
C9_Witness ==
    /\ \E j \in 1..Len(writeLog) : ~writeLog[j].ok
    /\ \E j \in 1..Len(writeLog) : writeLog[j].ok
    /\ \E i \in 1..Len(notices) : IsConfirmation(notices[i])

\* C10: the step that unloads the plugin and every step after it leave the
\* slot empty, add no item and mark no popup.
C10_NothingAfterUnload ==
    [][ lifecycle' = "unloaded" =>
            /\ lastClickedImage' = NoImage
            /\ added'.api = added.api
            /\ added'.dom = added.dom
            /\ Augmented(menus') \subseteq Augmented(menus) ]_vars

\* the timer of the only right-click, on an image, fired after the unload
\* with the popup of that right-click still open, and left it alone
C10_Witness ==
    /\ lifecycle = "unloaded"
    /\ nClicks = 1
    /\ added.scheduled = 1
    /\ timers = 0
    /\ added.dom = 0
    /\ Len(menus) = 1
    /\ Augmented(menus) = {}

====
